---- MODULE Spec2Model ----
(***************************************************************************)
(* A model of the printers-manager service.                                *)
(*                                                                         *)
(*   SpecImg  convert_to_bitmap and floyd_steinberg_dithering of           *)
(*            print_image_any.py, statement by statement, on pixel grids.  *)
(*   SpecEnc  the ESC/POS command encoders of server.py (pure functions).  *)
(*   SpecSrv  the request handlers of server.py and the printer            *)
(*            connections they open.                                       *)
(***************************************************************************)
EXTENDS Integers, Sequences, FiniteSets, TLC

VARIABLES
    ipc,        \* convert_to_bitmap: the statement about to run
    cargs,      \* convert_to_bitmap: its arguments
    img,        \* convert_to_bitmap: the local `img`
    img_array,  \* convert_to_bitmap / floyd_steinberg_dithering: the array
    dpos,       \* floyd_steinberg_dithering: pixels visited so far (y * width + x)
    output,     \* convert_to_bitmap: the local `output`, a sequence of bytes
    enc,        \* the encoder call: function, arguments, whether it returned, result
    arrived,    \* requests received so far
    pending,    \* requests suspended at their handler's first await, by endpoint and printer
    conns,      \* every CupsPrinter object constructed, in order of construction
    last        \* the handler on the event loop, at its return: its inputs, the calls
                \* it made on its printer object, its response (NoCall: the loop is free)

vars == <<ipc, cargs, img, img_array, dpos, output, enc, arrived, pending, conns, last>>

\* What each machine leaves alone.
notImg == <<enc, arrived, pending, conns, last>>
notEnc == <<ipc, cargs, img, img_array, dpos, output, arrived, pending, conns, last>>
notSrv == <<ipc, cargs, img, img_array, dpos, output, enc>>

-----------------------------------------------------------------------------
(* Bounds of the model.                                                    *)

\* Grey input images have at most this many pixels, each drawn from Levels.
MaxGrayPixels == 4
\* Two-level input images (uniform, or uniform with one pixel flipped) are
\* at most this wide and this high.
MaxW == 9
MaxH == 2

\* Intensities the grey images are drawn from: both ends of the range and
\* the three values around the thresholds.
Levels == {0, 127, 128, 129, 255}

\* print_image_any.py:42, the default of max_width.
MAX_WIDTH_DEFAULT == 576
MaxWidths == {1, MAX_WIDTH_DEFAULT}

Aligns == {"left", "center", "right", "LEFT", "middle"}
Modes == {"gsv0", "gsv1"}

-----------------------------------------------------------------------------
(* Images: width, height and a grid of samples indexed <<x, y>>.           *)

Coords(w, h) == (0 .. w - 1) \X (0 .. h - 1)

MkImage(w, h, f) == [w |-> w, h |-> h, px |-> f]

GrayDims == {d \in (1 .. MaxGrayPixels) \X (1 .. MaxGrayPixels) : d[1] * d[2] <= MaxGrayPixels}

GrayImages ==
    UNION {{MkImage(d[1], d[2], f) : f \in [Coords(d[1], d[2]) -> Levels]} : d \in GrayDims}

SpotDims == (1 .. MaxW) \X (1 .. MaxH)

UniformImage(w, h, bg) == MkImage(w, h, [p \in Coords(w, h) |-> bg])

SpotImage(w, h, bg, m) == MkImage(w, h, [p \in Coords(w, h) |-> IF p = m THEN 255 - bg ELSE bg])

SpotImages ==
    UNION {{UniformImage(d[1], d[2], bg) : bg \in {0, 255}}
           \cup {SpotImage(d[1], d[2], bg, m) : bg \in {0, 255}, m \in Coords(d[1], d[2])}
           : d \in SpotDims}

Images == GrayImages \cup SpotImages

NoImage == MkImage(0, 0, <<>>)

-----------------------------------------------------------------------------
(* floyd_steinberg_dithering.  The array is float64 in the code; the model *)
(* holds each sample as an integer multiple of 1 / Unit, which represents  *)
(* every value the loop computes on the model's images without rounding.   *)

Unit == 16 * 16 * 16 * 16 * 16

\* img_array.copy().astype(float)
AsFloat(a) == [a EXCEPT !.px = [p \in DOMAIN a.px |-> a.px[p] * Unit]]

\* Mutant: the threshold of the dithered path taken as inclusive.
QuantiseDitherInclusive(old_pixel) == IF old_pixel >= 128 * Unit THEN 255 * Unit ELSE 0

\* Mutant: the two output levels exchanged.
QuantiseDitherExchanged(old_pixel) == IF old_pixel > 128 * Unit THEN 0 ELSE 255 * Unit

\* new_pixel = 255 if old_pixel > 128 else 0
QuantiseDither(old_pixel) == IF old_pixel > 128 * Unit THEN 255 * Unit ELSE 0

\* error * k / 16
Share(error, k) == (error \div 16) * k

\* One iteration of the loop body, at x = pos % width, y = pos // width.
DitherPixelAt(a, pos) ==
    LET x == pos % a.w
        y == pos \div a.w
        old_pixel == a.px[<<x, y>>]
        new_pixel == QuantiseDither(old_pixel)
        error == old_pixel - new_pixel
    IN  [a EXCEPT !.px = [p \in DOMAIN a.px |->
            IF p = <<x, y>> THEN new_pixel
            ELSE IF p = <<x + 1, y>> THEN a.px[p] + Share(error, 7)
            ELSE IF p = <<x - 1, y + 1>> THEN a.px[p] + Share(error, 3)
            ELSE IF p = <<x, y + 1>> THEN a.px[p] + Share(error, 5)
            ELSE IF p = <<x + 1, y + 1>> THEN a.px[p] + Share(error, 1)
            ELSE a.px[p]]]

\* float -> uint8 of one sample: truncation toward zero, then the low 8 bits.
ToUint8(v) == (IF v >= 0 THEN v \div Unit ELSE -((-v) \div Unit)) % 256

\* output.astype(np.uint8)
AsUint8(a) == [a EXCEPT !.px = [p \in DOMAIN a.px |-> ToUint8(a.px[p])]]

-----------------------------------------------------------------------------
(* convert_to_bitmap: the pure parts.                                      *)

\* int(img.height * (max_width / img.width)); on the model's dimensions the
\* float product truncates to the exact quotient.
NewHeight(w, h, max_width) == (h * max_width) \div w

\* Mutant: the threshold of the undithered path moved to that of the dithered one.
PointBWInclusive(x) == IF x <= 128 THEN 0 ELSE 255

\* lambda x: 0 if x < 128 else 255
PointBW(x) == IF x < 128 THEN 0 ELSE 255

\* Mutant: the invert flag has no effect.
PointInvertNone(x) == x

\* lambda x: 255 - x
PointInvert(x) == 255 - x

MapPixels(a, F(_)) == [a EXCEPT !.px = [p \in DOMAIN a.px |-> F(a.px[p])]]

\* Mutant: the row length rounded down.
BytesPerLineFloor(width) == width \div 8

\* bytes_per_line = (width + 7) // 8
BytesPerLine(width) == (width + 7) \div 8

\* str.lower() on the alignment strings of the model.
Lower(s) == CASE s = "LEFT" -> "left" [] OTHER -> s

\* Mutant: the alignment looked up without lower-casing it.
AlignCmdCaseSensitive(a) ==
    CASE a = "left" -> <<27, 97, 0>>
      [] a = "center" -> <<27, 97, 1>>
      [] a = "right" -> <<27, 97, 2>>
      [] OTHER -> <<27, 97, 1>>

\* {...}.get(align.lower(), b'\x1b\x61\x01')
AlignCmd(a) ==
    LET k == Lower(a)
    IN  CASE k = "left" -> <<27, 97, 0>>
          [] k = "center" -> <<27, 97, 1>>
          [] k = "right" -> <<27, 97, 2>>
          [] OTHER -> <<27, 97, 1>>

\* Mutant: the leftmost pixel packed into the least significant bit.
BitOfLsbFirst(a, x, bit, y) ==
    IF x + bit < a.w /\ a.px[<<x + bit, y>>] = 0 THEN 2 ^ bit ELSE 0

\* The contribution of pixel x + bit of row y to byte_val: 0x80 >> bit when
\* the pixel exists and is black.
BitOf(a, x, bit, y) ==
    IF x + bit < a.w /\ a.px[<<x + bit, y>>] = 0 THEN 2 ^ (7 - bit) ELSE 0

\* byte_val after the loop over bit; the bits or-ed in are distinct, so the
\* or is a sum.
ByteVal(a, x, y) ==
    BitOf(a, x, 0, y) + BitOf(a, x, 1, y) + BitOf(a, x, 2, y) + BitOf(a, x, 3, y)
    + BitOf(a, x, 4, y) + BitOf(a, x, 5, y) + BitOf(a, x, 6, y) + BitOf(a, x, 7, y)

\* line_data of row y: one byte per group of 8 pixels.
LineData(a, y) == [k \in 1 .. BytesPerLine(a.w) |-> ByteVal(a, 8 * (k - 1), y)]

\* The image data: line_data of every row, in row order.
GSv0Data(a) ==
    LET bpl == BytesPerLine(a.w)
    IN  [i \in 1 .. bpl * a.h |-> LineData(a, (i - 1) \div bpl)[((i - 1) % bpl) + 1]]

\* GS v 0 m xL xH yL yH
GSv0Header(a) ==
    LET bpl == BytesPerLine(a.w)
    IN  <<29, 118, 48, 0, bpl % 256, (bpl \div 256) % 256, a.h % 256, (a.h \div 256) % 256>>

\* ESC * 33 nL nH, then one byte per pixel in row order.
EscStarCmd(a) ==
    <<27, 42, 33, a.w % 256, (a.w \div 256) % 256>>
    \o [i \in 1 .. a.w * a.h |->
            IF a.px[<<(i - 1) % a.w, (i - 1) \div a.w>>] = 0 THEN 255 ELSE 0]

ImageCmd(a, m) == IF m = "gsv0" THEN GSv0Header(a) \o GSv0Data(a) ELSE EscStarCmd(a)

-----------------------------------------------------------------------------
(* convert_to_bitmap as a state machine.                                   *)

\* The other two machines at rest.
EncIdle == [fn |-> "none", args |-> <<>>, done |-> FALSE, out |-> <<>>]
NoCall == [kind |-> "none"]
RestEnc == enc = EncIdle
RestSrv == arrived = 0 /\ pending = <<>> /\ conns = <<>> /\ last = NoCall
RestImg ==
    /\ ipc = "idle"
    /\ cargs = <<>>
    /\ img = NoImage
    /\ img_array = NoImage
    /\ dpos = 0
    /\ output = <<>>

\* A call of convert_to_bitmap on a grey image (convert('L') leaves a grey
\* image as it is).
InitImg ==
    /\ ipc = "resize"
    /\ \E im \in Images, mw \in MaxWidths, inv \in BOOLEAN, di \in BOOLEAN,
          al \in Aligns, mo \in Modes :
            /\ cargs = [image |-> im, max_width |-> mw, invert |-> inv, dither |-> di,
                        align |-> al, mode |-> mo]
            /\ img = im
    /\ img_array = NoImage
    /\ dpos = 0
    /\ output = <<>>
    /\ RestEnc
    /\ RestSrv

\* Lines 60-64, width within max_width: no resize.
ResizeSkip ==
    /\ ipc = "resize"
    /\ ~(img.w > cargs.max_width)
    /\ ipc' = "dither"
    /\ UNCHANGED <<cargs, img, img_array, dpos, output>>
    /\ UNCHANGED notImg

\* Lines 60-64: the image is resampled to max_width x new_height.  The
\* samples LANCZOS produces are not modelled: any grid of Levels.
ResizeDown ==
    /\ ipc = "resize"
    /\ img.w > cargs.max_width
    /\ NewHeight(img.w, img.h, cargs.max_width) > 0
    /\ \E f \in [Coords(cargs.max_width, NewHeight(img.w, img.h, cargs.max_width)) -> Levels] :
            img' = MkImage(cargs.max_width, NewHeight(img.w, img.h, cargs.max_width), f)
    /\ ipc' = "dither"
    /\ UNCHANGED <<cargs, img_array, dpos, output>>
    /\ UNCHANGED notImg

\* Lines 60-64: Image.resize refuses a height of 0 and the call raises.
ResizeFail ==
    /\ ipc = "resize"
    /\ img.w > cargs.max_width
    /\ NewHeight(img.w, img.h, cargs.max_width) = 0
    /\ ipc' = "raised"
    /\ UNCHANGED <<cargs, img, img_array, dpos, output>>
    /\ UNCHANGED notImg

\* Line 67, dither false.
DitherSkip ==
    /\ ipc = "dither"
    /\ ~cargs.dither
    /\ ipc' = "point"
    /\ UNCHANGED <<cargs, img, img_array, dpos, output>>
    /\ UNCHANGED notImg

\* Lines 67-69 and 19-20: np.array(img), then the float copy.
DitherBegin ==
    /\ ipc = "dither"
    /\ cargs.dither
    /\ img_array' = AsFloat(img)
    /\ dpos' = 0
    /\ ipc' = "loop"
    /\ UNCHANGED <<cargs, img, output>>
    /\ UNCHANGED notImg

\* Lines 22-37: one pixel of the loop.
DitherPixel ==
    /\ ipc = "loop"
    /\ dpos < img_array.w * img_array.h
    /\ img_array' = DitherPixelAt(img_array, dpos)
    /\ dpos' = dpos + 1
    /\ UNCHANGED <<ipc, cargs, img, output>>
    /\ UNCHANGED notImg

\* Lines 39 and 69-70: the array as uint8, and the image made from it.
DitherEnd ==
    /\ ipc = "loop"
    /\ dpos = img_array.w * img_array.h
    /\ img_array' = AsUint8(img_array)
    /\ img' = AsUint8(img_array)
    /\ ipc' = "point"
    /\ UNCHANGED <<cargs, dpos, output>>
    /\ UNCHANGED notImg

\* Line 73.
Point ==
    /\ ipc = "point"
    /\ img' = MapPixels(img, PointBW)
    /\ ipc' = "invert"
    /\ UNCHANGED <<cargs, img_array, dpos, output>>
    /\ UNCHANGED notImg

\* Lines 76-77.
Invert ==
    /\ ipc = "invert"
    /\ img' = IF cargs.invert THEN MapPixels(img, PointInvert) ELSE img
    /\ ipc' = "emit"
    /\ UNCHANGED <<cargs, img_array, dpos, output>>
    /\ UNCHANGED notImg

\* Lines 79-148: the alignment command, the image command, the reset.
Emit ==
    /\ ipc = "emit"
    /\ output' = AlignCmd(cargs.align) \o ImageCmd(img, cargs.mode) \o <<27, 97, 0>>
    /\ ipc' = "done"
    /\ UNCHANGED <<cargs, img, img_array, dpos>>
    /\ UNCHANGED notImg

NextImg ==
    \/ ResizeSkip
    \/ ResizeDown
    \/ ResizeFail
    \/ DitherSkip
    \/ DitherBegin
    \/ DitherPixel
    \/ DitherEnd
    \/ Point
    \/ Invert
    \/ Emit

SpecImg == InitImg /\ [][NextImg]_vars

\* Every share of an error is computed without a remainder.
DitherExact ==
    (ipc = "loop" /\ dpos < img_array.w * img_array.h) =>
        LET v == img_array.px[<<dpos % img_array.w, dpos \div img_array.w>>]
        IN  (v - QuantiseDither(v)) % 16 = 0

-----------------------------------------------------------------------------
(* Properties of convert_to_bitmap.                                        *)

\* ceil(w / 8): the least n with 8 n >= w.
CeilDiv8(w) == CHOOSE n \in 0 .. w : 8 * n >= w /\ 8 * (n - 1) < w

\* Bit 7 - b of a byte.
BitAt(byte, b) == (byte \div (2 ^ (7 - b))) % 2

\* The returned buffer without its first three and last three bytes.
ImagePart == SubSeq(output, 4, Len(output) - 3)

\* The arguments asked for no resize, so `img` was the argument until line 73.
NotResized == ~(cargs.image.w > cargs.max_width)

\* C2: in raster mode the image command is the header 1D 76 30 00, ceil(w/8)
\* and h as little-endian 16-bit values, then exactly ceil(w/8) * h data
\* bytes; a 1x1 black image gives 1D 76 30 00 01 00 01 00 80.
C2_RasterCommand ==
    (ipc = "done" /\ cargs.mode = "gsv0") =>
        LET n == CeilDiv8(img.w)
        IN  /\ Len(ImagePart) = 8 + n * img.h
            /\ SubSeq(ImagePart, 1, 8) =
                  <<29, 118, 48, 0, n % 256, (n \div 256) % 256,
                    img.h % 256, (img.h \div 256) % 256>>
            /\ (img.w = 1 /\ img.h = 1 /\ img.px[<<0, 0>>] = 0) =>
                  ImagePart = <<29, 118, 48, 0, 1, 0, 1, 0, 128>>

\* C2 witness: the 1x1 black image has been converted in raster mode.
C2_Witness ==
    /\ ipc = "done"
    /\ cargs.mode = "gsv0"
    /\ img.w = 1 /\ img.h = 1 /\ img.px[<<0, 0>>] = 0
    /\ output = <<27, 97, 1, 29, 118, 48, 0, 1, 0, 1, 0, 128, 27, 97, 0>>

\* The data bytes of a raster command read back most-significant-bit first,
\* the padding discarded.
Unpack(data, w, h) ==
    MkImage(w, h, [p \in Coords(w, h) |->
        IF BitAt(data[p[2] * CeilDiv8(w) + (p[1] \div 8) + 1], p[1] % 8) = 1 THEN 0 ELSE 255])

\* C3: bit 7 - b of byte k of row y is 1 exactly when x = 8k + b is inside
\* the row and pixel (x, y) is black, so every padding bit is 0 and reading
\* the bits back reproduces the image.
C3_PackInvertible ==
    (ipc = "done" /\ cargs.mode = "gsv0") =>
        LET n == CeilDiv8(img.w)
            data == SubSeq(ImagePart, 9, Len(ImagePart))
        IN  /\ \A y \in 0 .. img.h - 1, k \in 0 .. n - 1, b \in 0 .. 7 :
                  (BitAt(data[y * n + k + 1], b) = 1)
                      <=> (8 * k + b < img.w /\ img.px[<<8 * k + b, y>>] = 0)
            /\ Unpack(data, img.w, img.h) = img

\* C3 witness: a two-row image nine pixels wide whose only black pixel is
\* the ninth of the second row has been packed.
C3_Witness ==
    /\ ipc = "done"
    /\ cargs.mode = "gsv0"
    /\ img.w = 9 /\ img.h = 2
    /\ \A p \in DOMAIN img.px : (img.px[p] = 0) <=> (p = <<8, 1>>)
    /\ SubSeq(ImagePart, 9, Len(ImagePart)) = <<0, 0, 0, 128>>

\* The complement of every byte.
ComplementBytes(d) == [i \in 1 .. Len(d) |-> 255 - d[i]]

\* The invert statement of line 77 runs with the flag set.
InvertStep == ipc = "invert" /\ cargs.invert /\ ipc' = "emit"

\* C4 as stated: the data packed from the inverted image is the bytewise
\* complement of the data packed from the image, at every width.
C4_Original == [][InvertStep => GSv0Data(img') = ComplementBytes(GSv0Data(img))]_vars

\* C4 as amended: the data packed from the inverted image is the complement
\* of the data packed from the image on every bit that holds a pixel, the
\* padding bits are 0 in both, and so the bytes are complements of one
\* another exactly in the rows' bytes that hold no padding (every byte when
\* the width is a multiple of 8).
C4_InvertComposes ==
    [][InvertStep =>
        LET n == CeilDiv8(img.w)
            old == GSv0Data(img)
            new == GSv0Data(img')
        IN  /\ Len(new) = Len(old)
            /\ \A y \in 0 .. img.h - 1, k \in 0 .. n - 1, b \in 0 .. 7 :
                  IF 8 * k + b < img.w
                  THEN BitAt(new[y * n + k + 1], b) = 1 - BitAt(old[y * n + k + 1], b)
                  ELSE BitAt(new[y * n + k + 1], b) = 0 /\ BitAt(old[y * n + k + 1], b) = 0
            /\ (img.w % 8 = 0) => new = ComplementBytes(old)]_vars

\* C4 witness: an inverted image whose width is no multiple of 8 and which
\* has pixels of both colours has been packed.
C4_Witness ==
    /\ ipc = "done"
    /\ cargs.invert
    /\ cargs.mode = "gsv0"
    /\ img.w % 8 # 0
    /\ \E p, q \in DOMAIN img.px : img.px[p] = 0 /\ img.px[q] = 255

\* The statement of line 73 runs on an undithered image.
PointStepNoDither == ipc = "point" /\ ~cargs.dither /\ ipc' = "invert"

\* C5 as stated: without dithering a pixel of intensity v becomes white
\* (255) if v < 128 and black (0) otherwise.
C5_Original ==
    [][PointStepNoDither =>
        \A p \in DOMAIN img.px : img'.px[p] = IF img.px[p] < 128 THEN 255 ELSE 0]_vars

\* C5 as amended: without dithering a pixel of intensity v becomes black (0)
\* if v < 128 and white (255) otherwise.
C5_DirectThreshold ==
    [][PointStepNoDither =>
        /\ DOMAIN img'.px = DOMAIN img.px
        /\ \A p \in DOMAIN img.px : img'.px[p] = IF img.px[p] < 128 THEN 0 ELSE 255]_vars

\* C5 witness: an undithered image with a pixel of 127 and a pixel of 128
\* has been quantised, the first to black and the second to white.
C5_Witness ==
    /\ ipc = "invert"
    /\ ~cargs.dither
    /\ NotResized
    /\ \E p, q \in DOMAIN img.px :
            /\ cargs.image.px[p] = 127 /\ img.px[p] = 0
            /\ cargs.image.px[q] = 128 /\ img.px[q] = 255

\* C6: each pixel the dither loop visits becomes 255 when its accumulated
\* intensity is > 128 and 0 otherwise; the array returned has the dimensions
\* of the image and holds only 0 and 255; line 73 then changes no pixel.
C6_DitherQuantise ==
    [][/\ (ipc = "loop" /\ dpos' = dpos + 1) =>
            LET p == <<dpos % img_array.w, dpos \div img_array.w>>
            IN  img_array'.px[p] = IF img_array.px[p] > 128 * Unit THEN 255 * Unit ELSE 0
       /\ (ipc = "loop" /\ ipc' = "point") =>
            /\ img'.w = img.w /\ img'.h = img.h
            /\ DOMAIN img'.px = DOMAIN img.px
            /\ \A p \in DOMAIN img'.px : img'.px[p] \in {0, 255}
       /\ (ipc = "point" /\ cargs.dither /\ ipc' = "invert") => img' = img]_vars

\* C6 witness: a dithered image whose first pixel is exactly 128 has been
\* quantised, and the pixel is black.
C6_Witness ==
    /\ ipc = "invert"
    /\ cargs.dither
    /\ NotResized
    /\ cargs.image.w * cargs.image.h > 1
    /\ cargs.image.px[<<0, 0>>] = 128
    /\ img.px[<<0, 0>>] = 0

\* An image whose samples are all 0 or 255.
Bilevel(a) == \A p \in DOMAIN a.px : a.px[p] \in {0, 255}

\* C13: on an image whose samples are all 0 or 255, no iteration of the
\* dither loop changes the array (the error is 0 at every pixel, so no
\* neighbour changes), and the array returned is the image given.
C13_DitherIdempotent ==
    [][(ipc = "loop" /\ Bilevel(img)) =>
            /\ dpos' = dpos + 1 => img_array' = img_array
            /\ ipc' = "point" => img_array' = img /\ img' = img]_vars

\* C13 witness: the dither loop has run over an image of at least four
\* samples that holds both 0 and 255, and returned it.
C13_Witness ==
    /\ ipc = "point"
    /\ cargs.dither
    /\ NotResized
    /\ Bilevel(cargs.image)
    /\ cargs.image.w * cargs.image.h >= 4
    /\ \E p, q \in DOMAIN cargs.image.px :
            cargs.image.px[p] = 0 /\ cargs.image.px[q] = 255
    /\ dpos = cargs.image.w * cargs.image.h
    /\ img = cargs.image

\* C14: an image no wider than max_width is not resized; a wider one is
\* resized to the width max_width and a height of at least 1 that differs
\* from height * max_width / width by less than one pixel.
C14_Resize ==
    [][ipc = "resize" =>
            /\ ~(img.w > cargs.max_width) => ipc' = "dither" /\ img' = img
            /\ img.w > cargs.max_width =>
                    /\ ipc' = "dither"
                    /\ img'.w = cargs.max_width
                    /\ img'.h >= 1
                    /\ img'.h * img.w - img.h * cargs.max_width < img.w
                    /\ img.h * cargs.max_width - img'.h * img.w < img.w]_vars

\* C7 as stated: the buffer starts with 1B 61 m, m = 0, 1, 2 for the strings
\* left, center, right and 1 for any other string, and ends with 1B 61 00.
C7_Original ==
    (ipc = "done") =>
        /\ Len(output) >= 6
        /\ SubSeq(output, 1, 3) =
              <<27, 97, CASE cargs.align = "left" -> 0
                          [] cargs.align = "center" -> 1
                          [] cargs.align = "right" -> 2
                          [] OTHER -> 1>>
        /\ SubSeq(output, Len(output) - 2, Len(output)) = <<27, 97, 0>>

\* C7 as amended: the alignment string is compared without regard to case:
\* m = 0, 1, 2 for strings that are left, center, right once lower-cased and
\* 1 for any other string; the buffer ends with 1B 61 00.
C7_AlignWrapper ==
    (ipc = "done") =>
        /\ Len(output) >= 6
        /\ SubSeq(output, 1, 3) =
              <<27, 97, CASE cargs.align \in {"left", "LEFT"} -> 0
                          [] cargs.align = "center" -> 1
                          [] cargs.align = "right" -> 2
                          [] OTHER -> 1>>
        /\ SubSeq(output, Len(output) - 2, Len(output)) = <<27, 97, 0>>

\* C7 witness: an image has been converted with the alignment LEFT, and the
\* buffer starts with 1B 61 00.
C7_Witness ==
    /\ ipc = "done"
    /\ cargs.align = "LEFT"
    /\ SubSeq(output, 1, 3) = <<27, 97, 0>>
    /\ SubSeq(output, Len(output) - 2, Len(output)) = <<27, 97, 0>>

-----------------------------------------------------------------------------
(* The command encoders of server.py.                                      *)

\* Integer arguments of the one-argument encoders range over -MaxArg .. MaxArg,
\* those of the two-argument encoders over -2 .. MaxSmallArg.
MaxArg == 300
MaxSmallArg == 15

Args == (-MaxArg) .. MaxArg
SmallArgs == (-2) .. MaxSmallArg
CutModes == {"full", "partial", "FULL", ""}

Min(a, b) == IF a < b THEN a ELSE b
Max(a, b) == IF a > b THEN a ELSE b

\* max(lo, min(hi, val))
clamp(val, lo, hi) == Max(lo, Min(hi, val))

\* esc_feed
esc_feed(lines) == <<27, 100, clamp(lines, 0, 255)>>

\* Mutant: the pre-feed only for a positive feed, as the /cut handler does.
esc_cut_positive_feed(mode, feed) ==
    (IF feed > 0 THEN esc_feed(feed) ELSE <<>>)
    \o (IF mode = "full" THEN <<29, 86, 0>> ELSE <<29, 86, 1>>)

\* esc_cut; `if feed:` is true of every integer but 0.
esc_cut(mode, feed) ==
    (IF feed # 0 THEN esc_feed(feed) ELSE <<>>)
    \o (IF mode = "full" THEN <<29, 86, 0>> ELSE <<29, 86, 1>>)

\* Mutant: count and duration clamped to 0..9.
esc_beep_from_zero(count, duration) ==
    <<27, 66, clamp(IF count = 0 THEN 1 ELSE count, 0, 9),
              clamp(IF duration = 0 THEN 1 ELSE duration, 0, 9)>>

\* esc_beep; `count or 1` is 1 for a count of 0.
esc_beep(count, duration) ==
    <<27, 66, clamp(IF count = 0 THEN 1 ELSE count, 1, 9),
              clamp(IF duration = 0 THEN 1 ELSE duration, 1, 9)>>

\* Mutant: the width shifted by three bits.
esc_size_shift3(width, height) ==
    <<29, 33, 8 * (clamp(width, 1, 8) - 1) + (clamp(height, 1, 8) - 1)>>

\* esc_size; the two clamped values are below 8, so (w << 4) | h = 16 w + h.
esc_size(width, height) ==
    <<29, 33, 16 * (clamp(width, 1, 8) - 1) + (clamp(height, 1, 8) - 1)>>

EncCalls ==
    {[fn |-> "esc_feed", args |-> <<lines>>] : lines \in Args}
    \cup {[fn |-> "esc_cut", args |-> <<mode, feed>>] : mode \in CutModes, feed \in Args}
    \cup {[fn |-> "esc_beep", args |-> <<count, duration>>] :
            count \in SmallArgs, duration \in SmallArgs}
    \cup {[fn |-> "esc_size", args |-> <<width, height>>] :
            width \in SmallArgs, height \in SmallArgs}

\* One encoder has been called and has not returned yet.
InitEnc ==
    /\ \E c \in EncCalls : enc = [fn |-> c.fn, args |-> c.args, done |-> FALSE, out |-> <<>>]
    /\ RestImg
    /\ RestSrv

\* esc_feed returns.
CallFeed ==
    /\ enc.fn = "esc_feed"
    /\ ~enc.done
    /\ enc' = [enc EXCEPT !.done = TRUE, !.out = esc_feed(enc.args[1])]
    /\ UNCHANGED notEnc

\* esc_cut returns.
CallCut ==
    /\ enc.fn = "esc_cut"
    /\ ~enc.done
    /\ enc' = [enc EXCEPT !.done = TRUE, !.out = esc_cut(enc.args[1], enc.args[2])]
    /\ UNCHANGED notEnc

\* esc_beep returns.
CallBeep ==
    /\ enc.fn = "esc_beep"
    /\ ~enc.done
    /\ enc' = [enc EXCEPT !.done = TRUE, !.out = esc_beep(enc.args[1], enc.args[2])]
    /\ UNCHANGED notEnc

\* esc_size returns.
CallSize ==
    /\ enc.fn = "esc_size"
    /\ ~enc.done
    /\ enc' = [enc EXCEPT !.done = TRUE, !.out = esc_size(enc.args[1], enc.args[2])]
    /\ UNCHANGED notEnc

NextEnc ==
    \/ CallFeed
    \/ CallCut
    \/ CallBeep
    \/ CallSize

SpecEnc == InitEnc /\ [][NextEnc]_vars

\* C10: esc_cut returns the pre-feed 1B 64 n, n = feed clamped to 0..255,
\* exactly when feed is not 0, then 1D 56 00 for the mode "full" and 1D 56 01
\* for any other mode; Cut("full", 3) is 1B 64 03 1D 56 00 and the result is
\* 3 or 6 bytes long.
C10_Cut ==
    (enc.fn = "esc_cut" /\ enc.done) =>
        LET mode == enc.args[1]
            feed == enc.args[2]
            n == IF feed < 0 THEN 0 ELSE IF feed > 255 THEN 255 ELSE feed
            cut == <<29, 86, IF mode = "full" THEN 0 ELSE 1>>
        IN  /\ enc.out = IF feed = 0 THEN cut ELSE <<27, 100, n>> \o cut
            /\ Len(enc.out) \in {3, 6}
            /\ (mode = "full" /\ feed = 3) => enc.out = <<27, 100, 3, 29, 86, 0>>

\* C10 witness: esc_cut has been called with a negative feed and a mode
\* that is not "full", and returned the feed of 0 lines before the partial cut.
C10_Witness ==
    /\ enc.fn = "esc_cut"
    /\ enc.done
    /\ enc.args[1] = "FULL"
    /\ enc.args[2] < 0
    /\ enc.out = <<27, 100, 0, 29, 86, 1>>

\* C11: for every integer count and duration, zero and negative included,
\* esc_beep returns the four bytes 1B 42 c d, c = max(1, min(9, count)) and
\* d = max(1, min(9, duration)); Beep(15, 0) is 1B 42 09 01.
C11_Beep ==
    (enc.fn = "esc_beep" /\ enc.done) =>
        LET count == enc.args[1]
            duration == enc.args[2]
            c == IF count < 1 THEN 1 ELSE IF count > 9 THEN 9 ELSE count
            d == IF duration < 1 THEN 1 ELSE IF duration > 9 THEN 9 ELSE duration
        IN  /\ Len(enc.out) = 4
            /\ enc.out = <<27, 66, c, d>>
            /\ (count = 15 /\ duration = 0) => enc.out = <<27, 66, 9, 1>>

\* C11 witness: esc_beep has returned 1B 42 09 01 for a count of 15 and a
\* duration of 0.
C11_Witness ==
    /\ enc.fn = "esc_beep"
    /\ enc.done
    /\ enc.args = <<15, 0>>
    /\ enc.out = <<27, 66, 9, 1>>

\* The pair a size byte stands for: the high and the low four bits, plus one.
SizePair(n) == <<(n \div 16) + 1, (n % 16) + 1>>

\* C12: esc_size returns the three bytes 1D 21 n, n = 16 (w - 1) + (h - 1)
\* for w and h the width and height clamped to 1..8; n is in 0x00..0x77,
\* two calls whose clamped pairs differ return different n, and Size(3, 5)
\* is 1D 21 24.
C12_Size ==
    (enc.fn = "esc_size" /\ enc.done) =>
        LET width == enc.args[1]
            height == enc.args[2]
            w == IF width < 1 THEN 1 ELSE IF width > 8 THEN 8 ELSE width
            h == IF height < 1 THEN 1 ELSE IF height > 8 THEN 8 ELSE height
        IN  /\ Len(enc.out) = 3
            /\ enc.out[1] = 29 /\ enc.out[2] = 33
            /\ enc.out[3] = 16 * (w - 1) + (h - 1)
            /\ enc.out[3] \in 0 .. 119
            /\ SizePair(enc.out[3]) = <<w, h>>
            /\ \A w2, h2 \in 1 .. 8 :
                    esc_size(w2, h2) = enc.out => <<w2, h2>> = <<w, h>>
            /\ (width = 3 /\ height = 5) => enc.out = <<29, 33, 36>>

\* C12 witness: esc_size has returned 1D 21 70 for a width above 8 and a
\* height below 1.
C12_Witness ==
    /\ enc.fn = "esc_size"
    /\ enc.done
    /\ enc.args[1] > 8
    /\ enc.args[2] < 1
    /\ enc.out = <<29, 33, 112>>

-----------------------------------------------------------------------------
(* The request handlers of server.py.  Every handler is `async def`: it    *)
(* runs on the event loop and gives it up only at an await, so the code    *)
(* from the last await of a handler to its return is one step, and no      *)
(* other handler runs until the response has been handed over.             *)

\* Requests received in one run of the model.
MaxRequests == 2
\* The longest text of a /print-text body.
MaxTextLen == 2

Printers == {"p1", "p2"}
Endpoints == {"print_raw", "print_text", "print_image"}

\* Strings are sequences of characters; None and "" are both <<>> (the
\* handlers only test them with `not`).
Strs(chars, n) == UNION {[1 .. k -> chars] : k \in 0 .. n}

\* base64: two letters of the alphabet (A = 0, Q = 16), the padding
\* character and a character outside the alphabet, up to one group of four.
B64Chars == {"A", "Q", "=", "!"}
B64Strs == Strs(B64Chars, 4)
\* hex: two digits, a character that is no digit and white space.
HexChars == {"4", "f", "g", " "}
HexStrs == Strs(HexChars, 3)

\* The two body fields of /print-raw: every base64 string next to no hex, a
\* well-formed hex and a malformed hex, and every hex string next to no base64.
RawBodies ==
    {<<b, h>> : b \in B64Strs, h \in {<<>>, <<"4", "f">>, <<"g">>}}
    \cup {<<<<>>, h>> : h \in HexStrs}

B64Val(c) == CASE c = "A" -> 0 [] c = "Q" -> 16

\* The number of alphabet characters s starts with.
RECURSIVE B64Lead(_)
B64Lead(s) ==
    IF s # <<>> /\ Head(s) \in {"A", "Q"} THEN 1 + B64Lead(Tail(s)) ELSE 0

\* base64.b64decode(s, validate=True) returns: only alphabet characters, then
\* the padding that completes the last group of four.
B64Ok(s) ==
    /\ Len(s) % 4 = 0
    /\ Len(s) - B64Lead(s) <= 2
    /\ \A i \in B64Lead(s) + 1 .. Len(s) : s[i] = "="

\* The bytes of one group of four with n alphabet characters.
B64Group(g, n) ==
    LET v == B64Val(g[1]) * 262144 + B64Val(g[2]) * 4096
             + (IF n >= 3 THEN B64Val(g[3]) * 64 ELSE 0)
             + (IF n >= 4 THEN B64Val(g[4]) ELSE 0)
    IN  SubSeq(<<v \div 65536, (v \div 256) % 256, v % 256>>, 1, n - 1)

\* What base64.b64decode returns on a string it accepts.
RECURSIVE B64Decode(_)
B64Decode(s) ==
    IF s = <<>> THEN <<>>
    ELSE B64Group(SubSeq(s, 1, 4), B64Lead(SubSeq(s, 1, 4))) \o B64Decode(SubSeq(s, 5, Len(s)))

\* str.strip()
RECURSIVE Strip(_)
Strip(s) ==
    IF s = <<>> THEN s
    ELSE IF Head(s) = " " THEN Strip(Tail(s))
    ELSE IF s[Len(s)] = " " THEN Strip(SubSeq(s, 1, Len(s) - 1))
    ELSE s

HexVal(c) == CASE c = "4" -> 4 [] c = "f" -> 15

\* binascii.unhexlify(s) returns: an even number of hex digits.
HexOk(s) == Len(s) % 2 = 0 /\ \A i \in 1 .. Len(s) : s[i] \in {"4", "f"}

\* What binascii.unhexlify returns on a string it accepts.
HexDecode(s) == [i \in 1 .. Len(s) \div 2 |-> 16 * HexVal(s[2 * i - 1]) + HexVal(s[2 * i])]

\* A call made on a printer object: its name and its arguments.
Op(name, arg) == [op |-> name, arg |-> arg]

\* The library calls of a handler may raise; `fail` names the call that does
\* ("none": no call raises).
RawFails == {"none", "connect", "_raw", "close"}

\* Mutant: the connection opened before the payload is decoded.
PrintRawRunConnectFirst(pr, b64, hx, fail, id) ==
    LET given == b64 # <<>> \/ hx # <<>>
        ok == IF b64 # <<>> THEN B64Ok(b64) ELSE HexOk(Strip(hx))
        data == IF b64 # <<>> THEN B64Decode(b64) ELSE HexDecode(Strip(hx))
        base == [kind |-> "print_raw", printer |-> pr, b64 |-> b64, hx |-> hx,
                 status |-> 400, error |-> "missing_payload",
                 conn |-> 0, closed |-> FALSE, issued |-> <<>>]
    IN  IF ~given THEN base
        ELSE IF fail = "connect" THEN
            [base EXCEPT !.status = 500, !.error = "send_failed"]
        ELSE IF ~ok THEN
            [base EXCEPT !.error = "invalid_encoding", !.conn = id]
        ELSE IF fail = "_raw" THEN
            [base EXCEPT !.status = 500, !.error = "send_failed", !.conn = id]
        ELSE IF fail = "close" THEN
            [base EXCEPT !.status = 500, !.error = "send_failed", !.conn = id,
                         !.issued = <<Op("_raw", data)>>]
        ELSE
            [base EXCEPT !.status = 200, !.error = "", !.conn = id, !.closed = TRUE,
                         !.issued = <<Op("_raw", data), Op("close", <<>>)>>]

\* print_raw from the return of its awaits (lines 602-627) on the body
\* fields b64 and hx: the response, the connection object constructed (0:
\* none; id: the next object) and the calls made on it.
PrintRawRun(pr, b64, hx, fail, id) ==
    LET given == b64 # <<>> \/ hx # <<>>
        ok == IF b64 # <<>> THEN B64Ok(b64) ELSE HexOk(Strip(hx))
        data == IF b64 # <<>> THEN B64Decode(b64) ELSE HexDecode(Strip(hx))
        base == [kind |-> "print_raw", printer |-> pr, b64 |-> b64, hx |-> hx,
                 status |-> 400, error |-> "missing_payload",
                 conn |-> 0, closed |-> FALSE, issued |-> <<>>]
    IN  IF ~given THEN base
        ELSE IF ~ok THEN
            [base EXCEPT !.error = "invalid_encoding"]
        ELSE IF fail = "connect" THEN
            [base EXCEPT !.status = 500, !.error = "send_failed"]
        ELSE IF fail = "_raw" THEN
            [base EXCEPT !.status = 500, !.error = "send_failed", !.conn = id]
        ELSE IF fail = "close" THEN
            [base EXCEPT !.status = 500, !.error = "send_failed", !.conn = id,
                         !.issued = <<Op("_raw", data)>>]
        ELSE
            [base EXCEPT !.status = 200, !.error = "", !.conn = id, !.closed = TRUE,
                         !.issued = <<Op("_raw", data), Op("close", <<>>)>>]

\* /print-text: the texts, over a letter and the line feed.
Texts == Strs({"a", "\n"}, MaxTextLen)

\* CODEPAGE_MAP: name -> (ESC t index, Python codec).
CODEPAGE_MAP ==
    [cp437 |-> <<0, "cp437">>, cp860 |-> <<3, "cp860">>, cp863 |-> <<4, "cp863">>,
     cp865 |-> <<5, "cp865">>, cp1252 |-> <<16, "cp1252">>, cp866 |-> <<17, "cp866">>,
     cp852 |-> <<18, "cp852">>, cp858 |-> <<19, "cp858">>]

\* str.lower() and str.upper() on the code page names of the model.
LowerName(s) == CASE s = "CP437" -> "cp437" [] OTHER -> s
UpperName(s) == CASE s = "cp437" -> "CP437" [] OTHER -> s

\* The query parameters of /print-text: the code page, the formatting (the
\* defaults, or values that are unknown or out of range), lines_after, and
\* the cut parameters.
TextQueries ==
    {[codepage |-> c, align |-> f[1], bold |-> f[2], underline |-> f[3],
      width |-> f[4], height |-> f[5], lines_after |-> la,
      cut |-> k[1], cut_mode |-> k[2], cut_feed |-> k[3]] :
        c \in {"", "CP437", "utf8"},
        f \in {<<"left", FALSE, "none", 1, 1>>, <<"middle", TRUE, "double", 9, 0>>},
        la \in {0, 2},
        k \in {<<FALSE, "partial", 3>>, <<TRUE, "partial", 0>>, <<TRUE, "full", 3>>}}

\* The calls print_text makes on the printer object when none raises
\* (lines 419-453).
TextPlan(text, q) ==
    (IF q.codepage # "" /\ LowerName(q.codepage) \in DOMAIN CODEPAGE_MAP
        THEN <<Op("charcode", <<UpperName(CODEPAGE_MAP[LowerName(q.codepage)][2])>>)>>
        ELSE <<>>)
    \o <<Op("set", <<IF q.align \in {"left", "center", "right"} THEN q.align ELSE "left",
                     q.bold,
                     IF q.underline = "single" THEN 1
                        ELSE IF q.underline = "double" THEN 2 ELSE 0,
                     clamp(q.width, 1, 8), clamp(q.height, 1, 8)>>)>>
    \o <<Op("text", text \o <<"\n">>)>>
    \o (IF q.lines_after > 0 THEN <<Op("ln", <<q.lines_after>>)>> ELSE <<>>)
    \o (IF q.cut
        THEN (IF q.cut_feed > 0 THEN <<Op("ln", <<q.cut_feed>>)>> ELSE <<>>)
             \o <<Op("cut", <<IF q.cut_mode = "full" THEN "FULL" ELSE "PART">>)>>
        ELSE <<>>)
    \o <<Op("close", <<>>)>>

\* print_text from the return of its await (lines 408-469).  fail = 0: no
\* call raises; 1: the constructor does; k + 1: the k-th call of the plan.
PrintTextRun(pr, text, q, fail, id) ==
    LET plan == TextPlan(text, q)
        base == [kind |-> "print_text", printer |-> pr, text |-> text, query |-> q,
                 status |-> 400, error |-> "missing_text",
                 conn |-> 0, closed |-> FALSE, issued |-> <<>>]
    IN  IF text = <<>> THEN base
        ELSE IF fail = 1 THEN
            [base EXCEPT !.status = 500, !.error = "print_failed"]
        ELSE IF fail > 1 THEN
            [base EXCEPT !.status = 500, !.error = "print_failed", !.conn = id,
                         !.issued = SubSeq(plan, 1, fail - 2)]
        ELSE
            [base EXCEPT !.status = 200, !.error = "", !.conn = id, !.closed = TRUE,
                         !.issued = plan]

\* The query parameters of /print-image: alignment and mode (the defaults,
\* or unknown values), lines_after, the beep flag with the default count and
\* duration or values out of range, and the cut parameters.
ImageQueries ==
    {[align |-> f[1], mode |-> f[2], lines_after |-> la,
      beep |-> b[1], beep_count |-> b[2], beep_duration |-> b[3],
      cut |-> k[1], cut_mode |-> k[2], cut_feed |-> k[3]] :
        f \in {<<"center", "gsv0">>, <<"middle", "gsv1">>},
        la \in {-1, 0, 3},
        b \in {<<FALSE, 1, 2>>, <<TRUE, 1, 2>>, <<TRUE, 15, 0>>},
        k \in {<<FALSE, "partial", 0>>, <<TRUE, "partial", 0>>, <<TRUE, "full", 2>>}}

\* Mutant: the feed after the image only for a positive lines_after, as
\* print_text does.
ImagePlanFeedIfPositive(q) ==
    <<Op("set", <<IF q.align \in {"left", "center", "right"} THEN q.align ELSE "center">>)>>
    \o <<Op("image", <<IF q.mode = "gsv0" THEN "bitImageColumn" ELSE "graphics">>)>>
    \o (IF q.lines_after > 0 THEN <<Op("ln", <<q.lines_after>>)>> ELSE <<>>)
    \o (IF q.beep THEN <<Op("_raw", esc_beep(q.beep_count, q.beep_duration))>> ELSE <<>>)
    \o (IF q.cut
        THEN (IF q.cut_feed > 0 THEN <<Op("ln", <<q.cut_feed>>)>> ELSE <<>>)
             \o <<Op("cut", <<IF q.cut_mode = "full" THEN "FULL" ELSE "PART">>)>>
        ELSE <<>>)
    \o <<Op("close", <<>>)>>

\* The calls print_image makes on the printer object when none raises
\* (lines 316-361).
ImagePlan(q) ==
    <<Op("set", <<IF q.align \in {"left", "center", "right"} THEN q.align ELSE "center">>)>>
    \o <<Op("image", <<IF q.mode = "gsv0" THEN "bitImageColumn" ELSE "graphics">>)>>
    \o <<Op("ln", <<IF q.lines_after > 0 THEN q.lines_after ELSE 2>>)>>
    \o (IF q.beep THEN <<Op("_raw", esc_beep(q.beep_count, q.beep_duration))>> ELSE <<>>)
    \o (IF q.cut
        THEN (IF q.cut_feed > 0 THEN <<Op("ln", <<q.cut_feed>>)>> ELSE <<>>)
             \o <<Op("cut", <<IF q.cut_mode = "full" THEN "FULL" ELSE "PART">>)>>
        ELSE <<>>)
    \o <<Op("close", <<>>)>>

\* print_image from the return of its await (lines 280-388).  fail = 0: no
\* call raises; 1: the constructor does; 2: the image processing of lines
\* 293-314 does (the upload is no image, max_width is no number, the resize
\* is refused); k + 2: the k-th call of the plan.  The finally clause has
\* removed the uploaded file in every case.
PrintImageRun(pr, q, fail, id) ==
    LET plan == ImagePlan(q)
        base == [kind |-> "print_image", printer |-> pr, query |-> q,
                 status |-> 500, error |-> "print_failed", upload |-> "removed",
                 conn |-> 0, closed |-> FALSE, issued |-> <<>>]
    IN  IF fail = 1 THEN base
        ELSE IF fail = 2 THEN [base EXCEPT !.conn = id]
        ELSE IF fail > 2 THEN
            [base EXCEPT !.conn = id, !.issued = SubSeq(plan, 1, fail - 3)]
        ELSE
            [base EXCEPT !.status = 200, !.error = "", !.conn = id, !.closed = TRUE,
                         !.issued = plan]

\* get_cups_printer returned a new CupsPrinter object to the handler, which
\* closed it or left it open.
Connected(r) ==
    conns' = IF r.conn # 0 THEN Append(conns, [printer |-> r.printer, open |-> ~r.closed])
                           ELSE conns

Suspended == [e \in Endpoints \X Printers |-> 0]

InitSrv ==
    /\ arrived = 0
    /\ pending = Suspended
    /\ conns = <<>>
    /\ last = NoCall
    /\ RestImg
    /\ RestEnc

Rejected(name, code, why) ==
    [kind |-> "require_printer", printer |-> name, status |-> code, error |-> why,
     conn |-> 0, closed |-> FALSE, issued |-> <<>>]

\* require_printer, lines 78-83: no printer parameter, the request ends in 400.
RejectNoPrinter ==
    /\ last = NoCall
    /\ arrived < MaxRequests
    /\ arrived' = arrived + 1
    /\ last' = Rejected("", 400, "missing_printer")
    /\ UNCHANGED <<pending, conns>>
    /\ UNCHANGED notSrv

\* require_printer, lines 85-100: verify is set and lpstat does not know the
\* printer, the request ends in 404.
RejectUnknownPrinter ==
    /\ last = NoCall
    /\ arrived < MaxRequests
    /\ arrived' = arrived + 1
    /\ \E name \in Printers : last' = Rejected(name, 404, "printer_not_found")
    /\ UNCHANGED <<pending, conns>>
    /\ UNCHANGED notSrv

\* print_image, lines 270-271: the upload has no file name or one with an
\* extension that is not allowed, the request ends in 400 before any await.
RejectImageFile ==
    /\ last = NoCall
    /\ arrived < MaxRequests
    /\ arrived' = arrived + 1
    /\ \E name \in Printers :
            last' = [kind |-> "print_image", printer |-> name, query |-> <<>>,
                     status |-> 400, error |-> "invalid_file", upload |-> "none",
                     conn |-> 0, closed |-> FALSE, issued |-> <<>>]
    /\ UNCHANGED <<pending, conns>>
    /\ UNCHANGED notSrv

\* require_printer returns the name and the handler runs to its first await
\* (lines 599, 407 and 277), where it waits for the body.
Arrive ==
    /\ last = NoCall
    /\ arrived < MaxRequests
    /\ arrived' = arrived + 1
    /\ \E e \in Endpoints, name \in Printers :
            pending' = [pending EXCEPT ![<<e, name>>] = @ + 1]
    /\ UNCHANGED <<conns, last>>
    /\ UNCHANGED notSrv

\* print_raw, lines 599-627, once the body has been read.
PrintRaw ==
    \E pr \in Printers :
        /\ last = NoCall
        /\ pending[<<"print_raw", pr>>] > 0
        /\ pending' = [pending EXCEPT ![<<"print_raw", pr>>] = @ - 1]
        /\ \E body \in RawBodies, fail \in RawFails :
                LET r == PrintRawRun(pr, body[1], body[2], fail, Len(conns) + 1)
                IN  last' = r /\ Connected(r)
        /\ UNCHANGED arrived
        /\ UNCHANGED notSrv

\* print_text, lines 407-469, once the body has been read.
PrintText ==
    \E pr \in Printers :
        /\ last = NoCall
        /\ pending[<<"print_text", pr>>] > 0
        /\ pending' = [pending EXCEPT ![<<"print_text", pr>>] = @ - 1]
        /\ \E text \in Texts, q \in TextQueries :
            \E fail \in 0 .. Len(TextPlan(text, q)) + 1 :
                LET r == PrintTextRun(pr, text, q, fail, Len(conns) + 1)
                IN  last' = r /\ Connected(r)
        /\ UNCHANGED arrived
        /\ UNCHANGED notSrv

\* print_image, lines 277-388, once the upload has been read.
PrintImage ==
    \E pr \in Printers :
        /\ last = NoCall
        /\ pending[<<"print_image", pr>>] > 0
        /\ pending' = [pending EXCEPT ![<<"print_image", pr>>] = @ - 1]
        /\ \E q \in ImageQueries :
            \E fail \in 0 .. Len(ImagePlan(q)) + 2 :
                LET r == PrintImageRun(pr, q, fail, Len(conns) + 1)
                IN  last' = r /\ Connected(r)
        /\ UNCHANGED arrived
        /\ UNCHANGED notSrv

\* The response of the handler is handed over and its frame is gone.
Respond ==
    /\ last # NoCall
    /\ last' = NoCall
    /\ UNCHANGED <<arrived, pending, conns>>
    /\ UNCHANGED notSrv

NextSrv ==
    \/ RejectNoPrinter
    \/ RejectUnknownPrinter
    \/ RejectImageFile
    \/ Arrive
    \/ PrintRaw
    \/ PrintText
    \/ PrintImage
    \/ Respond

SpecSrv == InitSrv /\ [][NextSrv]_vars

-----------------------------------------------------------------------------
(* Properties of the handlers.                                             *)

\* C1: at most one live (constructed and not closed) connection object per
\* printer identifier, at every reachable state.
C1_OneLiveConnection ==
    \A i, j \in 1 .. Len(conns) :
        (conns[i].open /\ conns[j].open /\ conns[i].printer = conns[j].printer) => i = j

\* The payload print_raw decodes: base64 when given, else hex.
RawMalformed(r) ==
    IF r.b64 # <<>> THEN ~B64Ok(r.b64) ELSE r.hx # <<>> /\ ~HexOk(Strip(r.hx))

RawDecoded(r) == IF r.b64 # <<>> THEN B64Decode(r.b64) ELSE HexDecode(Strip(r.hx))

\* C8: a malformed payload ends print_raw in the invalid-encoding error with
\* no connection opened and nothing sent; bytes are sent only after the
\* payload has been decoded, and they are the decoded bytes.
C8_RawDecodeFirst ==
    (last.kind = "print_raw") =>
        /\ RawMalformed(last) =>
              /\ last.status = 400 /\ last.error = "invalid_encoding"
              /\ last.conn = 0
              /\ Len(last.issued) = 0
        /\ last.conn # 0 => ~RawMalformed(last) /\ (last.b64 # <<>> \/ last.hx # <<>>)
        /\ \A k \in 1 .. Len(last.issued) :
              /\ last.issued[k].op \in {"_raw", "close"}
              /\ last.issued[k].op = "_raw" =>
                    k = 1 /\ ~RawMalformed(last) /\ last.issued[k].arg = RawDecoded(last)

\* C8 witness: after a raw job has been sent over a connection, a request
\* with a malformed payload has ended in the invalid-encoding error, and no
\* further connection exists.
C8_Witness ==
    /\ last.kind = "print_raw"
    /\ RawMalformed(last)
    /\ last.error = "invalid_encoding"
    /\ last.conn = 0
    /\ Len(conns) = 1
    /\ ~conns[1].open

\* C9: the text sent is the caller's text with a line feed appended if it
\* does not end with one, and the caller's text as it is if it does.
C9_TrailingNewline ==
    (last.kind = "print_text") =>
        \A k \in 1 .. Len(last.issued) :
            last.issued[k].op = "text" =>
                last.issued[k].arg =
                    IF last.text[Len(last.text)] = "\n" THEN last.text
                    ELSE last.text \o <<"\n">>

\* The names of the calls a print-image job makes in the order the claim
\* gives: alignment, image, feed, beep when requested, cut when requested
\* (after its own feed when cut_feed > 0), close.
JobOrder(q) ==
    <<"set", "image", "ln">>
    \o (IF q.beep THEN <<"_raw">> ELSE <<>>)
    \o (IF q.cut THEN (IF q.cut_feed > 0 THEN <<"ln", "cut">> ELSE <<"cut">>) ELSE <<>>)
    \o <<"close">>

\* C15: the calls of one print-image job are an initial part of: set
\* alignment, image, feed, beep (only when requested), cut (only when
\* requested, after its own feed when cut_feed > 0), close, and all of it
\* when the job succeeds; no beep and no cut comes before the image, the
\* feed after the image is of lines_after lines, 2 when lines_after <= 0,
\* and comes before any cut, and no call follows close.
C15_ImageJobOrder ==
    (last.kind = "print_image" /\ last.conn # 0) =>
        LET s == last.issued
            q == last.query
            order == JobOrder(q)
        IN  /\ Len(s) <= Len(order)
            /\ \A k \in 1 .. Len(s) : s[k].op = order[k]
            /\ last.status = 200 => Len(s) = Len(order)
            /\ \A k \in 1 .. Len(s) :
                    /\ s[k].op \in {"_raw", "cut"} =>
                            \E i \in 1 .. k - 1 : s[i].op = "image"
                    /\ s[k].op = "cut" =>
                            \E i \in 1 .. k - 1 :
                                /\ s[i].op = "ln"
                                /\ s[i].arg[1] >= 1
                                /\ q.lines_after <= 0 => s[i].arg[1] = 2
                                /\ \E j \in 1 .. i - 1 : s[j].op = "image"
                    /\ s[k].op = "close" => k = Len(s)
            /\ Len(s) >= 3 => s[3].arg = <<IF q.lines_after > 0 THEN q.lines_after ELSE 2>>

\* C15 witness: a job with lines_after <= 0, a beep and a cut with its own
\* feed has succeeded with seven calls, the third a feed of two lines.
C15_Witness ==
    /\ last.kind = "print_image"
    /\ last.status = 200
    /\ last.query.lines_after <= 0
    /\ last.query.beep
    /\ last.query.cut
    /\ last.query.cut_feed > 0
    /\ Len(last.issued) = 7
    /\ last.issued[3] = Op("ln", <<2>>)
    /\ last.issued[6].op = "cut"
    /\ last.issued[7].op = "close"

=============================================================================
